---------------------------- MODULE Spec2Model ----------------------------
(***************************************************************************)
(* Model of pkg/hostagent/hostagent.go: HostAgent.Run, the startup         *)
(* goroutine (startHostAgentRoutines), the teardown stack (onClose/close), *)
(* the shutdown protocol (shutdownQEMU/killQEMU) and the guest agent       *)
(* watcher (watchGuestAgentEvents).                                        *)
(*                                                                         *)
(* Goroutines: main (pc), the qCmd.Wait goroutine (wpc), the startup       *)
(* goroutine (spc), the watcher (gpc).  The environment: the hypervisor    *)
(* process, the caller's context, the signal channel, the timers.          *)
(***************************************************************************)
EXTENDS Integers, Sequences, FiniteSets, TLC

VARIABLES
  port,          \* a.y.SSH.LocalPort
  ctxDone,       \* the caller's ctx has been cancelled
  sigint,        \* signals pending in a.sigintCh
  pc,            \* position of Run (main goroutine)
  ret,           \* value of Run's return statement, "none" before it
  defers,        \* deferred logPipeRoutine calls still to run at return
  pipesClosed,   \* qCmd.Start failed and closed the pipe descriptors
  mlog,          \* operations performed by the main goroutine, in order
  qproc,         \* hypervisor process: "none", "running", "exited"
  qCause,        \* why it exited: "none", "self", "ctx", "kill"
  qExit,         \* result of qCmd.Wait(): "none", "nil", "exit1", "killed"
  killSignal,    \* SIGKILL delivered by qCmd.Process.Kill()
  killCount,     \* calls of qCmd.Process.Kill() made by killQEMU
  pidFile,       \* qemu.pid exists
  wpc,           \* goroutine `qWaitCh <- qCmd.Wait()`
  timerSet,      \* time.After(timeout) of shutdownQEMU was created
  deadlineFired, \* ... and has fired
  events,        \* Events written by emitEvent, in order
  onClose,       \* a.onClose
  closeLen,      \* len(a.onClose) read when close() starts its loop
  ci,            \* loop index i of close() (1-based; 0 = loop finished)
  closeErr,      \* mErr of close(): the failed actions, in order
  invoked,       \* teardown actions called by close(), with their outcome
  unmounted,     \* m.close() calls, in order
  spc,           \* position of the startup goroutine
  sErrs,         \* mErr of startHostAgentRoutines: failed stages, in order
  mounts,        \* result of a.setupMounts
  gpc,           \* position of watchGuestAgentEvents
  gprobe,        \* result of isGuestAgentSocketAccessible in this iteration
  wlog,          \* operations of the watcher in the current iteration
  pollFired,     \* time.After(10s) of the watcher's select has fired
  fwdActive,     \* the ssh forward of ga.sock is established
  sockFile       \* ga.sock exists

vars == <<port, ctxDone, sigint, pc, ret, defers, pipesClosed, mlog, qproc,
          qCause, qExit, killSignal, killCount, pidFile, wpc, timerSet,
          deadlineFired, events, onClose, closeLen, ci, closeErr, invoked,
          unmounted, spc, sErrs, mounts, gpc, gprobe, wlog, pollFired,
          fwdActive, sockFile>>

mainVars == <<pc, ret, defers, pipesClosed, mlog>>
procVars == <<qproc, qCause, qExit, killSignal, pidFile>>
shutVars == <<killCount, timerSet, deadlineFired>>
closeVars == <<closeLen, ci, closeErr, invoked, unmounted>>
startVars == <<spc, sErrs, mounts>>
watchVars == <<gpc, gprobe, wlog, pollFired, fwdActive, sockFile>>

-----------------------------------------------------------------------------
(* Bounds *)
MaxMounts == 2      \* mounts provisioned by setupMounts
MaxSigint == 1      \* signals delivered to sigintCh
MaxFuncs == 3       \* teardown actions on an arbitrary stack (SpecClose)

Ports == {-1, 0, 1}

-----------------------------------------------------------------------------
(* Helpers *)
Has(s, x) == \E i \in 1..Len(s) : s[i] = x
RECURSIVE Count(_, _)
Count(s, x) == IF s = <<>> THEN 0
               ELSE (IF Head(s) = x THEN 1 ELSE 0) + Count(Tail(s), x)
Idx(s, x) == IF Has(s, x) THEN CHOOSE i \in 1..Len(s) : s[i] = x /\ \A j \in 1..(i-1) : s[j] # x
             ELSE 0
Before(s, a, b) == Has(s, a) /\ Has(s, b) /\ Idx(s, a) < Idx(s, b)
Reverse(s) == [i \in 1..Len(s) |-> s[Len(s) + 1 - i]]
Iota(n) == [i \in 1..n |-> i]

(* hostagentapi.Status *)
Status(r, d, a, errs, p) ==
  [running |-> r, degraded |-> d, aborted |-> a, errors |-> errs, sshLocalPort |-> p]
stBooting == Status(FALSE, FALSE, FALSE, <<>>, port)
abortEv == Status(FALSE, FALSE, TRUE, <<>>, 0)

(* a.emitEvent: the encoder is serialized by eventEncMu *)
emitEvent(ev) == events' = Append(events, ev)

(* teardown actions: the two closures of startHostAgentRoutines, and f(k),
   an arbitrary func() error *)
SSHMasterFn == [name |-> "sshMaster", id |-> 0]
UnmountFn == [name |-> "unmount", id |-> 0]
AnyFn(k) == [name |-> "f", id |-> k]

-----------------------------------------------------------------------------
Init ==
  /\ port \in Ports
  /\ ctxDone = FALSE
  /\ sigint = 0
  /\ pc = "stdoutPipe"
  /\ ret = "none"
  /\ defers = 0
  /\ pipesClosed = FALSE
  /\ mlog = <<>>
  /\ qproc = "none"
  /\ qCause = "none"
  /\ qExit = "none"
  /\ killSignal = FALSE
  /\ killCount = 0
  /\ pidFile = FALSE
  /\ wpc = "none"
  /\ timerSet = FALSE
  /\ deadlineFired = FALSE
  /\ events = <<>>
  /\ onClose = <<>>
  /\ closeLen = 0
  /\ ci = 0
  /\ closeErr = <<>>
  /\ invoked = <<>>
  /\ unmounted = <<>>
  /\ spc = "none"
  /\ sErrs = <<>>
  /\ mounts = <<>>
  /\ gpc = "none"
  /\ gprobe = FALSE
  /\ wlog = <<>>
  /\ pollFired = FALSE
  /\ fwdActive = FALSE
  /\ sockFile = FALSE

-----------------------------------------------------------------------------
(* Run: a return statement.  The deferred calls run afterwards, last
   registered first: logPipeRoutine(stderr), logPipeRoutine(stdout), then the
   abort event. *)
Return(v) ==
  /\ ret' = v
  /\ pc' = "returning"

(* qCmd.StdoutPipe() and defer logPipeRoutine(qStdout) *)
StdoutPipe ==
  /\ pc = "stdoutPipe"
  /\ \/ /\ pc' = "stderrPipe"
        /\ defers' = 1
        /\ mlog' = Append(mlog, "stdoutPipe")
        /\ ret' = ret
     \/ /\ Return("pipeErr")
        /\ UNCHANGED <<defers, mlog>>
  /\ UNCHANGED <<port, ctxDone, sigint, pipesClosed, procVars, wpc, shutVars,
                 events, onClose, closeVars, startVars, watchVars>>

(* qCmd.StderrPipe() and defer logPipeRoutine(qStderr) *)
StderrPipe ==
  /\ pc = "stderrPipe"
  /\ \/ /\ pc' = "start"
        /\ defers' = 2
        /\ mlog' = Append(mlog, "stderrPipe")
        /\ ret' = ret
     \/ /\ Return("pipeErr")
        /\ UNCHANGED <<defers, mlog>>
  /\ UNCHANGED <<port, ctxDone, sigint, pipesClosed, procVars, wpc, shutVars,
                 events, onClose, closeVars, startVars, watchVars>>

(* qCmd.Start() and, when it succeeds, go func() { qWaitCh <- qCmd.Wait() } *)
StartQEMU ==
  /\ pc = "start"
  /\ \/ /\ qproc' = "running"
        /\ pidFile' = TRUE
        /\ wpc' = "wait"
        /\ pc' = "checkPort"
        /\ mlog' = Append(mlog, "start")
        /\ UNCHANGED <<ret, pipesClosed>>
     \/ /\ Return("startErr")
        /\ pipesClosed' = TRUE
        /\ UNCHANGED <<qproc, pidFile, wpc, mlog>>
  /\ UNCHANGED <<port, ctxDone, sigint, defers, qCause, qExit, killSignal,
                 shutVars, events, onClose, closeVars, startVars, watchVars>>

(* mutant of CheckPort: the booting event does not carry the port *)
CheckPortEventWithoutPort ==
  /\ pc = "checkPort"
  /\ IF port < 0
       THEN /\ Return("invalidPort")
            /\ UNCHANGED <<mlog, events>>
       ELSE /\ emitEvent(Status(FALSE, FALSE, FALSE, <<>>, 0))
            /\ mlog' = Append(mlog, "emitBooting")
            /\ pc' = "sshkeygen"
            /\ ret' = ret
  /\ UNCHANGED <<port, ctxDone, sigint, defers, pipesClosed, procVars, wpc,
                 shutVars, onClose, closeVars, startVars, watchVars>>

(* sshLocalPort < 0 check, then the booting event *)
CheckPort ==
  /\ pc = "checkPort"
  /\ IF port < 0
       THEN /\ Return("invalidPort")
            /\ UNCHANGED <<mlog, events>>
       ELSE /\ emitEvent(stBooting)
            /\ mlog' = Append(mlog, "emitBooting")
            /\ pc' = "sshkeygen"
            /\ ret' = ret
  /\ UNCHANGED <<port, ctxDone, sigint, defers, pipesClosed, procVars, wpc,
                 shutVars, onClose, closeVars, startVars, watchVars>>

(* ssh-keygen -R, then the startup goroutine is launched *)
SSHKeygen ==
  /\ pc = "sshkeygen"
  /\ \/ /\ mlog' = mlog \o <<"sshkeygen", "goStartup">>
        /\ spc' = "reg1"
        /\ pc' = "select"
        /\ ret' = ret
     \/ /\ mlog' = Append(mlog, "sshkeygen")
        /\ Return("keygenErr")
        /\ spc' = spc
  /\ UNCHANGED <<port, ctxDone, sigint, defers, pipesClosed, procVars, wpc,
                 shutVars, events, onClose, closeVars, sErrs, mounts, watchVars>>

(* main select, case <-a.sigintCh: close() starts, its loop index is read *)
SelectSigint ==
  /\ pc = "select"
  /\ sigint > 0
  /\ sigint' = sigint - 1
  /\ mlog' = Append(mlog, "sigint")
  /\ closeLen' = Len(onClose)
  /\ ci' = Len(onClose)
  /\ pc' = "close"
  /\ UNCHANGED <<port, ctxDone, ret, defers, pipesClosed, procVars, wpc,
                 shutVars, events, onClose, closeErr, invoked, unmounted,
                 startVars, watchVars>>

(* mutant of SelectQWait: the wait error is logged and nil returned *)
SelectQWaitDropsResult ==
  /\ pc = "select"
  /\ wpc = "send"
  /\ wpc' = "done"
  /\ mlog' = Append(mlog, "recvSelect")
  /\ Return("nil")
  /\ UNCHANGED <<port, ctxDone, sigint, defers, pipesClosed, procVars,
                 shutVars, events, onClose, closeVars, startVars, watchVars>>

(* main select, case qWaitErr := <-qWaitCh *)
SelectQWait ==
  /\ pc = "select"
  /\ wpc = "send"
  /\ wpc' = "done"
  /\ mlog' = Append(mlog, "recvSelect")
  /\ Return(qExit)
  /\ UNCHANGED <<port, ctxDone, sigint, defers, pipesClosed, procVars,
                 shutVars, events, onClose, closeVars, startVars, watchVars>>

-----------------------------------------------------------------------------
(* The teardown stack *)

(* outcomes of calling a teardown action: TRUE = it returns an error.  The
   SSH-master closure logs the failure of ssh.ExitMaster and returns nil; the
   unmount closure fails iff some m.close() fails. *)
FnFails(f) ==
  IF f.name = "sshMaster" THEN {FALSE}
  ELSE IF f.name = "unmount" THEN (IF mounts = <<>> THEN {FALSE} ELSE BOOLEAN)
  ELSE BOOLEAN

(* the unmount closure: for _, m := range mounts { m.close() } *)
UnmountOrder(ms) == ms

(* mutant of CloseStep: the loop stops at the first failing action *)
CloseStepShortCircuit ==
  /\ pc = "close"
  /\ ci >= 1
  /\ LET f == onClose[ci] IN
     \E failed \in FnFails(f) :
       /\ invoked' = Append(invoked, [fn |-> f, failed |-> failed])
       /\ closeErr' = IF failed THEN Append(closeErr, f) ELSE closeErr
       /\ unmounted' = IF f.name = "unmount"
                         THEN unmounted \o UnmountOrder(mounts)
                         ELSE unmounted
       /\ ci' = IF failed THEN 0 ELSE ci - 1
  /\ UNCHANGED <<port, ctxDone, sigint, mainVars, procVars, wpc, shutVars,
                 events, onClose, closeLen, startVars, watchVars>>

(* one iteration of the loop of close(): f := a.onClose[i]; f(); i-- *)
CloseStep ==
  /\ pc = "close"
  /\ ci >= 1
  /\ LET f == onClose[ci] IN
     \E failed \in FnFails(f) :
       /\ invoked' = Append(invoked, [fn |-> f, failed |-> failed])
       /\ closeErr' = IF failed THEN Append(closeErr, f) ELSE closeErr
       /\ unmounted' = IF f.name = "unmount"
                         THEN unmounted \o UnmountOrder(mounts)
                         ELSE unmounted
  /\ ci' = ci - 1
  /\ UNCHANGED <<port, ctxDone, sigint, mainVars, procVars, wpc, shutVars,
                 events, onClose, closeLen, startVars, watchVars>>

(* mutant of CloseDone: a teardown error is returned from Run *)
CloseDoneReturnsError ==
  /\ pc = "close"
  /\ ci = 0
  /\ IF closeErr # <<>>
       THEN /\ Return("closeErr")
            /\ mlog' = mlog
       ELSE /\ pc' = "qmpOpen"
            /\ mlog' = Append(mlog, "closed")
            /\ ret' = ret
  /\ UNCHANGED <<port, ctxDone, sigint, defers, pipesClosed, procVars,
                 wpc, shutVars, events, onClose, closeVars, startVars,
                 watchVars>>

(* close() returns mErr; Run logs it and calls shutdownQEMU *)
CloseDone ==
  /\ pc = "close"
  /\ ci = 0
  /\ pc' = "qmpOpen"
  /\ mlog' = Append(mlog, "closed")
  /\ UNCHANGED <<port, ctxDone, sigint, ret, defers, pipesClosed, procVars,
                 wpc, shutVars, events, onClose, closeVars, startVars,
                 watchVars>>

-----------------------------------------------------------------------------
(* shutdownQEMU / killQEMU *)

(* qmp.NewSocketMonitor *)
QMPOpen ==
  /\ pc = "qmpOpen"
  /\ \/ /\ pc' = "qmpConnect"
        /\ mlog' = Append(mlog, "qmpOpen")
     \/ /\ pc' = "kill"
        /\ mlog' = Append(mlog, "qmpOpenFailed")
  /\ UNCHANGED <<port, ctxDone, sigint, ret, defers, pipesClosed, procVars,
                 wpc, shutVars, events, onClose, closeVars, startVars,
                 watchVars>>

(* mutant of QMPConnect: a failed handshake waits for the exit instead of
   going to the kill *)
QMPConnectFailWaits ==
  /\ pc = "qmpConnect"
  /\ \/ /\ pc' = "powerdown"
        /\ mlog' = Append(mlog, "qmpConnect")
     \/ /\ pc' = "waitExit"
        /\ mlog' = Append(mlog, "qmpConnectFailed")
  /\ UNCHANGED <<port, ctxDone, sigint, ret, defers, pipesClosed, procVars,
                 wpc, shutVars, events, onClose, closeVars, startVars,
                 watchVars>>

(* qmpClient.Connect *)
QMPConnect ==
  /\ pc = "qmpConnect"
  /\ \/ /\ pc' = "powerdown"
        /\ mlog' = Append(mlog, "qmpConnect")
     \/ /\ pc' = "kill"
        /\ mlog' = Append(mlog, "qmpConnectFailed")
  /\ UNCHANGED <<port, ctxDone, sigint, ret, defers, pipesClosed, procVars,
                 wpc, shutVars, events, onClose, closeVars, startVars,
                 watchVars>>

(* rawClient.SystemPowerdown, then deadline := time.After(timeout) *)
Powerdown ==
  /\ pc = "powerdown"
  /\ \/ /\ pc' = "waitExit"
        /\ mlog' = Append(mlog, "powerdown")
        /\ timerSet' = TRUE
     \/ /\ pc' = "kill"
        /\ mlog' = Append(mlog, "powerdownFailed")
        /\ timerSet' = timerSet
  /\ UNCHANGED <<port, ctxDone, sigint, ret, defers, pipesClosed, procVars,
                 wpc, killCount, deadlineFired, events, onClose, closeVars,
                 startVars, watchVars>>

(* the timer of shutdownQEMU fires *)
DeadlineFire ==
  /\ pc = "waitExit"
  /\ timerSet
  /\ ~deadlineFired
  /\ deadlineFired' = TRUE
  /\ UNCHANGED <<port, ctxDone, sigint, mainVars, procVars, wpc, killCount,
                 timerSet, events, onClose, closeVars, startVars, watchVars>>

(* mutant of WaitExitRecv: the exit is received but the kill follows anyway *)
WaitExitRecvThenKill ==
  /\ pc = "waitExit"
  /\ wpc = "send"
  /\ mlog' = Append(mlog, "recvWaitExit")
  /\ pc' = "kill"
  /\ UNCHANGED <<port, ctxDone, sigint, ret, defers, pipesClosed, procVars,
                 wpc, shutVars, events, onClose, closeVars, startVars,
                 watchVars>>

(* select of shutdownQEMU, case qWaitErr := <-qWaitCh: return qWaitErr *)
WaitExitRecv ==
  /\ pc = "waitExit"
  /\ wpc = "send"
  /\ wpc' = "done"
  /\ mlog' = Append(mlog, "recvWaitExit")
  /\ Return(qExit)
  /\ UNCHANGED <<port, ctxDone, sigint, defers, pipesClosed, procVars,
                 shutVars, events, onClose, closeVars, startVars, watchVars>>

(* mutant of WaitExitDeadline: the select does not wait for the deadline *)
WaitExitDeadlineEarly ==
  /\ pc = "waitExit"
  /\ pc' = "kill"
  /\ mlog' = Append(mlog, "deadline")
  /\ UNCHANGED <<port, ctxDone, sigint, ret, defers, pipesClosed, procVars,
                 wpc, shutVars, events, onClose, closeVars, startVars,
                 watchVars>>

(* select of shutdownQEMU, case <-deadline: fall through to killQEMU *)
WaitExitDeadline ==
  /\ pc = "waitExit"
  /\ deadlineFired
  /\ pc' = "kill"
  /\ mlog' = Append(mlog, "deadline")
  /\ UNCHANGED <<port, ctxDone, sigint, ret, defers, pipesClosed, procVars,
                 wpc, shutVars, events, onClose, closeVars, startVars,
                 watchVars>>

(* mutant of KillQEMU: the kill is logged but no signal reaches the process *)
KillQEMUNoSignal ==
  /\ pc = "kill"
  /\ killCount' = killCount + 1
  /\ mlog' = Append(mlog, "kill")
  /\ pc' = "killWait"
  /\ UNCHANGED <<port, ctxDone, sigint, ret, defers, pipesClosed, qproc,
                 qCause, qExit, killSignal, pidFile, wpc, timerSet,
                 deadlineFired, events, onClose, closeVars, startVars,
                 watchVars>>

(* killQEMU: qCmd.Process.Kill(); its error (process already gone) is logged *)
KillQEMU ==
  /\ pc = "kill"
  /\ killCount' = killCount + 1
  /\ killSignal' = (killSignal \/ qproc = "running")
  /\ mlog' = Append(mlog, "kill")
  /\ pc' = "killWait"
  /\ UNCHANGED <<port, ctxDone, sigint, ret, defers, pipesClosed, qproc,
                 qCause, qExit, pidFile, wpc, timerSet, deadlineFired, events,
                 onClose, closeVars, startVars, watchVars>>

(* mutant of KillWait: killQEMU goes on without receiving from qWaitCh *)
KillWaitNoRecv ==
  /\ pc = "killWait"
  /\ pc' = "rmPid"
  /\ UNCHANGED <<port, ctxDone, sigint, ret, defers, pipesClosed, mlog,
                 procVars, wpc, shutVars, events, onClose, closeVars,
                 startVars, watchVars>>

(* killQEMU: qWaitErr := <-qWaitCh *)
KillWait ==
  /\ pc = "killWait"
  /\ wpc = "send"
  /\ wpc' = "done"
  /\ mlog' = Append(mlog, "recvKill")
  /\ pc' = "rmPid"
  /\ UNCHANGED <<port, ctxDone, sigint, ret, defers, pipesClosed, procVars,
                 shutVars, events, onClose, closeVars, startVars, watchVars>>

(* killQEMU: os.RemoveAll(qemuPIDPath); return qWaitErr *)
RemovePID ==
  /\ pc = "rmPid"
  /\ pidFile' = FALSE
  /\ mlog' = Append(mlog, "rmPid")
  /\ Return(qExit)
  /\ UNCHANGED <<port, ctxDone, sigint, defers, pipesClosed, qproc, qCause,
                 qExit, killSignal, wpc, shutVars, events, onClose, closeVars,
                 startVars, watchVars>>

-----------------------------------------------------------------------------
(* Run's deferred calls *)

(* a pipe of the hypervisor reaches EOF (or is closed) only when Start failed
   or the process has exited *)
PipeEOF == pipesClosed \/ qproc = "exited"

(* defer logPipeRoutine(...): scans the pipe until EOF *)
DeferredLogPipe ==
  /\ pc = "returning"
  /\ defers > 0
  /\ PipeEOF
  /\ defers' = defers - 1
  /\ UNCHANGED <<port, ctxDone, sigint, pc, ret, pipesClosed, mlog, procVars,
                 wpc, shutVars, events, onClose, closeVars, startVars,
                 watchVars>>

(* the first defer of Run: the abort event; then Run has returned *)
DeferredAbort ==
  /\ pc = "returning"
  /\ defers = 0
  /\ emitEvent(abortEv)
  /\ pc' = "done"
  /\ UNCHANGED <<port, ctxDone, sigint, ret, defers, pipesClosed, mlog,
                 procVars, wpc, shutVars, onClose, closeVars, startVars,
                 watchVars>>

-----------------------------------------------------------------------------
(* The hypervisor process and the goroutine waiting for it *)

(* the process exits: by itself, killed by exec.CommandContext when ctx is
   done, or killed by killQEMU *)
QemuExit ==
  /\ qproc = "running"
  /\ \/ /\ ~killSignal
        /\ \E r \in {"nil", "exit1"} : qExit' = r
        /\ qCause' = "self"
     \/ /\ ~killSignal
        /\ ctxDone
        /\ qExit' = "killed"
        /\ qCause' = "ctx"
     \/ /\ killSignal
        /\ qExit' = "killed"
        /\ qCause' = "kill"
  /\ qproc' = "exited"
  /\ UNCHANGED <<port, ctxDone, sigint, mainVars, killSignal, pidFile, wpc,
                 shutVars, events, onClose, closeVars, startVars, watchVars>>

(* qCmd.Wait() returns; the goroutine blocks sending on qWaitCh *)
WaitReturns ==
  /\ wpc = "wait"
  /\ qproc = "exited"
  /\ wpc' = "send"
  /\ UNCHANGED <<port, ctxDone, sigint, mainVars, procVars, shutVars, events,
                 onClose, closeVars, startVars, watchVars>>

(* a signal is delivered to sigintCh *)
Interrupt ==
  /\ sigint < MaxSigint
  /\ Count(mlog, "sigint") + sigint < MaxSigint
  /\ sigint' = sigint + 1
  /\ UNCHANGED <<port, ctxDone, mainVars, procVars, wpc, shutVars, events,
                 onClose, closeVars, startVars, watchVars>>

(* the caller cancels ctx *)
CtxCancel ==
  /\ ~ctxDone
  /\ ctxDone' = TRUE
  /\ UNCHANGED <<port, sigint, mainVars, procVars, wpc, shutVars, events,
                 onClose, closeVars, startVars, watchVars>>

-----------------------------------------------------------------------------
(* The startup goroutine: startHostAgentRoutines, then the status event *)

(* a.onClose = append(a.onClose, <exit the SSH master>) *)
RegisterSSHMaster ==
  /\ spc = "reg1"
  /\ onClose' = Append(onClose, SSHMasterFn)
  /\ spc' = "essential"
  /\ UNCHANGED <<port, ctxDone, sigint, mainVars, procVars, wpc, shutVars,
                 events, closeVars, sErrs, mounts, watchVars>>

(* mutant of WaitEssential: a failure ends startHostAgentRoutines *)
WaitEssentialStops ==
  /\ spc = "essential"
  /\ \E ok \in BOOLEAN :
       /\ sErrs' = IF ok THEN sErrs ELSE Append(sErrs, "essential")
       /\ spc' = IF ok THEN "mounts" ELSE "emit"
  /\ UNCHANGED <<port, ctxDone, sigint, mainVars, procVars, wpc, shutVars,
                 events, onClose, closeVars, mounts, watchVars>>

(* a.waitForRequirements(ctx, "essential", ...) *)
WaitEssential ==
  /\ spc = "essential"
  /\ \E ok \in BOOLEAN :
       sErrs' = IF ok THEN sErrs ELSE Append(sErrs, "essential")
  /\ spc' = "mounts"
  /\ UNCHANGED <<port, ctxDone, sigint, mainVars, procVars, wpc, shutVars,
                 events, onClose, closeVars, mounts, watchVars>>

(* mounts, err := a.setupMounts(ctx): of the MaxMounts configured mounts, the
   first n are provisioned, in order; err # nil iff one could not be *)
SetupMounts ==
  /\ spc = "mounts"
  /\ \E n \in 0..MaxMounts :
       /\ mounts' = Iota(n)
       /\ sErrs' = IF n = MaxMounts THEN sErrs ELSE Append(sErrs, "mounts")
  /\ spc' = "reg2"
  /\ UNCHANGED <<port, ctxDone, sigint, mainVars, procVars, wpc, shutVars,
                 events, onClose, closeVars, watchVars>>

(* a.onClose = append(a.onClose, <unmount the mounts>) *)
RegisterUnmount ==
  /\ spc = "reg2"
  /\ onClose' = Append(onClose, UnmountFn)
  /\ spc' = "goWatcher"
  /\ UNCHANGED <<port, ctxDone, sigint, mainVars, procVars, wpc, shutVars,
                 events, closeVars, sErrs, mounts, watchVars>>

(* go a.watchGuestAgentEvents(ctx) *)
LaunchWatcher ==
  /\ spc = "goWatcher"
  /\ gpc' = "probe"
  /\ spc' = "optional"
  /\ UNCHANGED <<port, ctxDone, sigint, mainVars, procVars, wpc, shutVars,
                 events, onClose, closeVars, sErrs, mounts, gprobe, wlog,
                 pollFired, fwdActive, sockFile>>

(* a.waitForRequirements(ctx, "optional", ...); return mErr *)
WaitOptional ==
  /\ spc = "optional"
  /\ \E ok \in BOOLEAN :
       sErrs' = IF ok THEN sErrs ELSE Append(sErrs, "optional")
  /\ spc' = "emit"
  /\ UNCHANGED <<port, ctxDone, sigint, mainVars, procVars, wpc, shutVars,
                 events, onClose, closeVars, mounts, watchVars>>

(* mutant of stRunning: Running is set only when no stage failed *)
stRunningExclusive ==
  IF sErrs # <<>>
    THEN Status(FALSE, TRUE, FALSE, <<sErrs>>, port)
    ELSE Status(TRUE, FALSE, FALSE, <<>>, port)

(* the status computed by the goroutine of Run: Degraded and Errors when
   haErr != nil (haErr.Error() is one string listing the failures), and
   Running = true in every case *)
stRunning ==
  IF sErrs # <<>>
    THEN Status(TRUE, TRUE, FALSE, <<sErrs>>, port)
    ELSE Status(TRUE, FALSE, FALSE, <<>>, port)

EmitRunning ==
  /\ spc = "emit"
  /\ emitEvent(stRunning)
  /\ spc' = "done"
  /\ UNCHANGED <<port, ctxDone, sigint, mainVars, procVars, wpc, shutVars,
                 onClose, closeVars, sErrs, mounts, watchVars>>

-----------------------------------------------------------------------------
(* watchGuestAgentEvents *)

(* outcomes of forwardSSH: exec.CommandContext does not start a command whose
   ctx is already done; otherwise ssh may succeed or fail *)
ForwardSSHOk == IF ctxDone THEN {FALSE} ELSE BOOLEAN

(* mutant of WatchProbe: the test of the probe is inverted *)
WatchProbeInverted ==
  /\ gpc = "probe"
  /\ \E r \in (IF sockFile /\ fwdActive THEN BOOLEAN ELSE {FALSE}) :
       /\ gprobe' = r
       /\ gpc' = IF r THEN "rm" ELSE "session"
  /\ wlog' = <<"probe">>
  /\ UNCHANGED <<port, ctxDone, sigint, mainVars, procVars, wpc, shutVars,
                 events, onClose, closeVars, startVars, pollFired, fwdActive,
                 sockFile>>

(* isGuestAgentSocketAccessible: the Info call through ga.sock *)
WatchProbe ==
  /\ gpc = "probe"
  /\ \E r \in (IF sockFile /\ fwdActive THEN BOOLEAN ELSE {FALSE}) :
       /\ gprobe' = r
       /\ gpc' = IF r THEN "session" ELSE "rm"
  /\ wlog' = <<"probe">>
  /\ UNCHANGED <<port, ctxDone, sigint, mainVars, procVars, wpc, shutVars,
                 events, onClose, closeVars, startVars, pollFired, fwdActive,
                 sockFile>>

(* os.RemoveAll(localUnix) before forwarding *)
WatchRemoveStale ==
  /\ gpc = "rm"
  /\ sockFile' = FALSE
  /\ wlog' = Append(wlog, "rm")
  /\ gpc' = "fwd"
  /\ UNCHANGED <<port, ctxDone, sigint, mainVars, procVars, wpc, shutVars,
                 events, onClose, closeVars, startVars, gprobe, pollFired,
                 fwdActive>>

(* forwardSSH(..., false); a failure is logged *)
WatchForward ==
  /\ gpc = "fwd"
  /\ \E ok \in ForwardSSHOk :
       /\ fwdActive' = (fwdActive \/ ok)
       /\ sockFile' = (sockFile \/ ok)
       /\ wlog' = Append(wlog, "fwd")
  /\ gpc' = "session"
  /\ UNCHANGED <<port, ctxDone, sigint, mainVars, procVars, wpc, shutVars,
                 events, onClose, closeVars, startVars, gprobe, pollFired>>

(* a.processGuestAgentEvents returns; the select creates time.After(10s) *)
WatchSession ==
  /\ gpc = "session"
  /\ wlog' = Append(wlog, "session")
  /\ pollFired' = FALSE
  /\ gpc' = "wait"
  /\ UNCHANGED <<port, ctxDone, sigint, mainVars, procVars, wpc, shutVars,
                 events, onClose, closeVars, startVars, gprobe, fwdActive,
                 sockFile>>

(* the 10 s timer fires *)
PollFire ==
  /\ gpc = "wait"
  /\ ~pollFired
  /\ pollFired' = TRUE
  /\ UNCHANGED <<port, ctxDone, sigint, mainVars, procVars, wpc, shutVars,
                 events, onClose, closeVars, startVars, gpc, gprobe, wlog,
                 fwdActive, sockFile>>

(* select, case <-time.After(10 * time.Second): next iteration *)
WatchPoll ==
  /\ gpc = "wait"
  /\ pollFired
  /\ gpc' = "probe"
  /\ wlog' = <<>>
  /\ pollFired' = FALSE
  /\ UNCHANGED <<port, ctxDone, sigint, mainVars, procVars, wpc, shutVars,
                 events, onClose, closeVars, startVars, gprobe, fwdActive,
                 sockFile>>

(* select, case <-ctx.Done() *)
WatchCtxDone ==
  /\ gpc = "wait"
  /\ ctxDone
  /\ gpc' = "cancelFwd"
  /\ wlog' = Append(wlog, "ctxDone")
  /\ UNCHANGED <<port, ctxDone, sigint, mainVars, procVars, wpc, shutVars,
                 events, onClose, closeVars, startVars, gprobe, pollFired,
                 fwdActive, sockFile>>

(* forwardSSH(..., verbCancel); a failure is logged *)
WatchCancelForward ==
  /\ gpc = "cancelFwd"
  /\ \E ok \in ForwardSSHOk :
       /\ fwdActive' = (fwdActive /\ ~ok)
       /\ wlog' = Append(wlog, "cancel")
  /\ gpc' = "rmFinal"
  /\ UNCHANGED <<port, ctxDone, sigint, mainVars, procVars, wpc, shutVars,
                 events, onClose, closeVars, startVars, gprobe, pollFired,
                 sockFile>>

(* os.RemoveAll(localUnix) after stopping forwarding; return *)
WatchRemoveFinal ==
  /\ gpc = "rmFinal"
  /\ sockFile' = FALSE
  /\ wlog' = Append(wlog, "rmFinal")
  /\ gpc' = "done"
  /\ UNCHANGED <<port, ctxDone, sigint, mainVars, procVars, wpc, shutVars,
                 events, onClose, closeVars, startVars, gprobe, pollFired,
                 fwdActive>>

-----------------------------------------------------------------------------
(* Run, the Wait goroutine, the startup goroutine and their environment *)
NextRun ==
  \/ StdoutPipe \/ StderrPipe \/ StartQEMU \/ CheckPort \/ SSHKeygen
  \/ SelectSigint \/ SelectQWait
  \/ CloseStep \/ CloseDone
  \/ QMPOpen \/ QMPConnect \/ Powerdown \/ DeadlineFire
  \/ WaitExitRecv \/ WaitExitDeadline \/ KillQEMU \/ KillWait \/ RemovePID
  \/ DeferredLogPipe \/ DeferredAbort
  \/ QemuExit \/ WaitReturns \/ Interrupt \/ CtxCancel
  \/ RegisterSSHMaster \/ WaitEssential \/ SetupMounts \/ RegisterUnmount
  \/ LaunchWatcher \/ WaitOptional \/ EmitRunning

(* the watcher goroutine *)
NextWatcher ==
  \/ WatchProbe \/ WatchRemoveStale \/ WatchForward \/ WatchSession
  \/ PollFire \/ WatchPoll \/ WatchCtxDone \/ WatchCancelForward
  \/ WatchRemoveFinal

Next == NextRun \/ NextWatcher

(* The whole program. *)
Spec == Init /\ [][Next]_vars

(* The watcher writes only its own variables (watchVars) and no other
   goroutine reads them, so the properties of Run, of the startup goroutine
   and of the shutdown protocol are checked on the program without the
   steps of the watcher. *)
SpecRun == Init /\ [][NextRun]_vars

(* The watcher reads only ctx besides its own variables: it is checked in
   the runs where the hypervisor keeps running and no signal arrives, Run
   waiting in its select. *)
NextWatch ==
  \/ StdoutPipe \/ StderrPipe \/ StartQEMU \/ CheckPort \/ SSHKeygen
  \/ DeferredLogPipe \/ DeferredAbort
  \/ RegisterSSHMaster \/ WaitEssential \/ SetupMounts \/ RegisterUnmount
  \/ LaunchWatcher \/ WaitOptional \/ EmitRunning
  \/ CtxCancel
  \/ NextWatcher

SpecWatch == Init /\ [][NextWatch]_vars

(* close() on an arbitrary teardown stack: Run is in its select with a signal
   pending, the startup goroutine has finished, and a.onClose holds any
   sequence of up to MaxFuncs distinct actions. *)
Stacks ==
  LET Fns == {AnyFn(k) : k \in 1..MaxFuncs} IN
  {st \in UNION {[1..n -> Fns] : n \in 0..MaxFuncs} :
     \A i, j \in 1..Len(st) : st[i] = st[j] => i = j}

InitClose ==
  /\ port = 0
  /\ ctxDone = FALSE
  /\ sigint = 1
  /\ pc = "select"
  /\ ret = "none"
  /\ defers = 2
  /\ pipesClosed = FALSE
  /\ mlog = <<"stdoutPipe", "stderrPipe", "start", "emitBooting", "sshkeygen", "goStartup">>
  /\ qproc = "running"
  /\ qCause = "none"
  /\ qExit = "none"
  /\ killSignal = FALSE
  /\ killCount = 0
  /\ pidFile = TRUE
  /\ wpc = "wait"
  /\ timerSet = FALSE
  /\ deadlineFired = FALSE
  /\ events = <<stBooting>>
  /\ onClose \in Stacks
  /\ closeLen = 0
  /\ ci = 0
  /\ closeErr = <<>>
  /\ invoked = <<>>
  /\ unmounted = <<>>
  /\ spc = "done"
  /\ sErrs = <<>>
  /\ mounts = <<>>
  /\ gpc = "none"
  /\ gprobe = FALSE
  /\ wlog = <<>>
  /\ pollFired = FALSE
  /\ fwdActive = FALSE
  /\ sockFile = FALSE

NextClose == SelectSigint \/ CloseStep \/ CloseDone

SpecClose == InitClose /\ [][NextClose]_vars

-----------------------------------------------------------------------------
(* Scheduling.  The Go scheduler runs every goroutine that can take a step;
   a timer that was created fires; a process that received SIGKILL (from
   killQEMU, or from exec.CommandContext once ctx is done) exits.
   Nothing obliges the hypervisor to exit by itself, a signal to arrive, or
   the caller to cancel ctx. *)
MainSteps ==
  \/ StdoutPipe \/ StderrPipe \/ StartQEMU \/ CheckPort \/ SSHKeygen
  \/ SelectSigint \/ SelectQWait
  \/ CloseStep \/ CloseDone
  \/ QMPOpen \/ QMPConnect \/ Powerdown
  \/ WaitExitRecv \/ WaitExitDeadline \/ KillQEMU \/ KillWait \/ RemovePID
  \/ DeferredLogPipe \/ DeferredAbort

StartupSteps ==
  \/ RegisterSSHMaster \/ WaitEssential \/ SetupMounts \/ RegisterUnmount
  \/ LaunchWatcher \/ WaitOptional \/ EmitRunning

QemuDies == (killSignal \/ ctxDone) /\ QemuExit

FairnessRun ==
  /\ WF_vars(MainSteps)
  /\ WF_vars(StartupSteps)
  /\ WF_vars(WaitReturns)
  /\ WF_vars(QemuDies)
  /\ WF_vars(DeadlineFire)

FairRun == Init /\ [][NextRun]_vars /\ FairnessRun

(* The instance is up: the state Run reaches when the startup goroutine has
   completed without a failure and launched the watcher, and nothing else
   has happened yet; from there, everything that can happen. *)
InitUp ==
  /\ port \in {p \in Ports : p >= 0}
  /\ ctxDone = FALSE
  /\ sigint = 0
  /\ pc = "select"
  /\ ret = "none"
  /\ defers = 2
  /\ pipesClosed = FALSE
  /\ mlog = <<"stdoutPipe", "stderrPipe", "start", "emitBooting", "sshkeygen", "goStartup">>
  /\ qproc = "running"
  /\ qCause = "none"
  /\ qExit = "none"
  /\ killSignal = FALSE
  /\ killCount = 0
  /\ pidFile = TRUE
  /\ wpc = "wait"
  /\ timerSet = FALSE
  /\ deadlineFired = FALSE
  /\ events = <<stBooting, Status(TRUE, FALSE, FALSE, <<>>, port)>>
  /\ onClose = <<SSHMasterFn, UnmountFn>>
  /\ closeLen = 0
  /\ ci = 0
  /\ closeErr = <<>>
  /\ invoked = <<>>
  /\ unmounted = <<>>
  /\ spc = "done"
  /\ sErrs = <<>>
  /\ mounts = Iota(MaxMounts)
  /\ gpc = "probe"
  /\ gprobe = FALSE
  /\ wlog = <<>>
  /\ pollFired = FALSE
  /\ fwdActive = FALSE
  /\ sockFile = FALSE

NextUp ==
  \/ SelectSigint \/ SelectQWait
  \/ CloseStep \/ CloseDone
  \/ QMPOpen \/ QMPConnect \/ Powerdown \/ DeadlineFire
  \/ WaitExitRecv \/ WaitExitDeadline \/ KillQEMU \/ KillWait \/ RemovePID
  \/ DeferredLogPipe \/ DeferredAbort
  \/ QemuExit \/ WaitReturns \/ Interrupt \/ CtxCancel
  \/ NextWatcher

SpecUp == InitUp /\ [][NextUp]_vars

(* the watcher is one goroutine and its poll timer fires; a select whose
   ctx.Done() case is ready again and again picks it in the end *)
FairUp == SpecUp /\ FairnessRun /\ WF_vars(NextWatcher) /\ SF_vars(WatchCtxDone)

-----------------------------------------------------------------------------
(* Properties *)

Returned == pc \in {"returning", "done"}
InvokedFns == [i \in 1..Len(invoked) |-> invoked[i].fn]
FailedFns ==
  LET F == SelectSeq(invoked, LAMBDA r : r.failed)
  IN [i \in 1..Len(F) |-> F[i].fn]
ShutdownOps == {"qmpOpen", "qmpOpenFailed", "qmpConnect", "qmpConnectFailed",
                "powerdown", "powerdownFailed", "deadline", "recvWaitExit",
                "kill", "recvKill", "rmPid"}

(* C1: with a negative SSH port, Run returns "invalid ssh local port" before
   any hypervisor process is spawned: the error is never returned with the
   process started. *)
C1_InvalidPortBeforeSpawn ==
  ret = "invalidPort" => (qproc = "none" /\ ~Has(mlog, "start"))

(* C2: no event with running=true precedes the booting event, and an event
   with aborted=true is the last event of the stream: no event is emitted
   after it. *)
C2_StatusMonotonic ==
  /\ \A i \in 1..Len(events) :
       events[i].running => \E j \in 1..(i-1) : events[j] = stBooting
  /\ \A i \in 1..Len(events) :
       events[i].aborted => i = Len(events)

(* C3: close() calls every action of the stack exactly once, in the reverse
   of the registration order, also after an action has failed; the error it
   returns lists every failed action, and is nil iff none failed. *)
C3_CloseReverseAll ==
  /\ pc = "close" =>
       /\ Len(invoked) = closeLen - ci
       /\ InvokedFns = SubSeq(Reverse(onClose), 1, Len(invoked))
  /\ Has(mlog, "closed") =>
       /\ InvokedFns = Reverse(onClose)
       /\ closeErr = FailedFns
       /\ (closeErr = <<>>) <=> (\A i \in 1..Len(invoked) : ~invoked[i].failed)

C3_Witness ==
  /\ Has(mlog, "closed")
  /\ Len(invoked) = 3
  /\ invoked[1].failed
  /\ invoked[2].failed
  /\ ~invoked[3].failed

(* C4: when the power-down command was sent and the process exit is received
   before the graceful-wait deadline fires, shutdownQEMU returns that exit
   result, sends no kill and does not remove the pid file. *)
C4_GracefulExit ==
  /\ (Has(mlog, "powerdown") /\ ~deadlineFired) =>
       /\ killCount = 0
       /\ pidFile
       /\ ~Has(mlog, "kill")
       /\ ~Has(mlog, "rmPid")
  /\ (Has(mlog, "powerdown") /\ ~deadlineFired /\ wpc = "done") =>
       /\ Returned
       /\ ret = qExit
  /\ Has(mlog, "recvWaitExit") =>
       /\ Returned
       /\ ret = qExit
       /\ killCount = 0
       /\ pidFile

C4_Witness ==
  /\ pc = "done"
  /\ Has(mlog, "powerdown")
  /\ ~deadlineFired
  /\ ret = "nil"

(* C5: when the power-down command was sent and the hypervisor does not exit
   on its own (it dies of the kill), the kill is sent exactly once and only
   after the deadline has fired, and the pid file is removed after the exit
   was received and before shutdownQEMU returns. *)
C5_TimeoutKill ==
  /\ (Has(mlog, "powerdown") /\ killCount > 0) =>
       /\ deadlineFired
       /\ killCount = 1
       /\ Before(mlog, "powerdown", "deadline")
       /\ Before(mlog, "deadline", "kill")
  /\ (Has(mlog, "powerdown") /\ ~pidFile) => Before(mlog, "recvKill", "rmPid")
  /\ (Has(mlog, "powerdown") /\ qCause = "kill" /\ Returned) =>
       /\ killCount = 1
       /\ Count(mlog, "kill") = 1
       /\ Before(mlog, "kill", "recvKill")
       /\ Before(mlog, "recvKill", "rmPid")
       /\ ~pidFile
       /\ ret = "killed"

C5_Witness ==
  /\ pc = "done"
  /\ Has(mlog, "powerdown")
  /\ qCause = "kill"
  /\ killCount = 1
  /\ ~pidFile

(* C6: after an interrupt every action that is on the teardown stack when
   close() starts has been called and has returned before the shutdown
   protocol begins (before the QMP socket is opened, and before any
   power-down or kill); a teardown error does not stop the shutdown and is
   not returned: Run returns the wait result the shutdown protocol received. *)
C6_TeardownThenShutdown ==
  /\ (\E op \in ShutdownOps : Has(mlog, op)) =>
       /\ Has(mlog, "closed")
       /\ \A op \in ShutdownOps : Has(mlog, op) => Before(mlog, "closed", op)
  /\ (Has(mlog, "sigint") /\ pc # "close") =>
       /\ Has(mlog, "closed")
       /\ Before(mlog, "sigint", "closed")
       /\ ci = 0
       /\ InvokedFns = Reverse(SubSeq(onClose, 1, closeLen))
  /\ (Has(mlog, "sigint") /\ Returned) =>
       /\ ret = qExit
       /\ wpc = "done"
       /\ \/ Has(mlog, "recvWaitExit")
          \/ Has(mlog, "recvKill")

C6_Witness ==
  /\ pc = "done"
  /\ Has(mlog, "sigint")
  /\ Len(invoked) = 2
  /\ closeErr # <<>>
  /\ ret = "nil"

(* C7: when an interrupt is received with two or more mounts provisioned and
   their unmount registered, the mounts are unmounted in the reverse of the
   order in which they were provisioned. *)
C7_UnmountReverse ==
  (Has(mlog, "closed") /\ Len(mounts) >= 2 /\ Has(InvokedFns, UnmountFn)) =>
     unmounted = Reverse(mounts)

(* C8: when the main select receives the process exit, Run returns exactly
   the wait result; no teardown action is called, no QMP connection is
   opened, no kill is sent and the pid file is not removed. *)
C8_ExitReturnsDirectly ==
  Has(mlog, "recvSelect") =>
    /\ Returned
    /\ ret = qExit
    /\ ret \in {"nil", "exit1", "killed"}
    /\ invoked = <<>>
    /\ unmounted = <<>>
    /\ \A op \in ShutdownOps \cup {"sigint", "closed"} : ~Has(mlog, op)
    /\ killCount = 0
    /\ ~killSignal
    /\ pidFile

C8_Witness ==
  /\ pc = "done"
  /\ Has(mlog, "recvSelect")
  /\ ret = "exit1"
  /\ Len(onClose) = 2

(* C9: in an iteration of the watcher, a reachable endpoint means no removal
   of ga.sock and no forward; an unreachable one means the file is removed,
   then exactly one forward is attempted, whatever its outcome, before the
   session attempt and the poll wait. *)
C9_WatcherIteration ==
  /\ gpc = "rm" => (~gprobe /\ wlog = <<"probe">>)
  /\ gpc = "fwd" => (~gprobe /\ wlog = <<"probe", "rm">>)
  /\ gpc = "session" =>
       wlog = IF gprobe THEN <<"probe">> ELSE <<"probe", "rm", "fwd">>
  /\ gpc = "wait" =>
       wlog = IF gprobe THEN <<"probe", "session">>
              ELSE <<"probe", "rm", "fwd", "session">>
  /\ (gpc = "fwd" /\ ~Has(wlog, "fwd")) => ~sockFile

C9_Witness ==
  /\ gpc = "wait"
  /\ gprobe
  /\ wlog = <<"probe", "session">>
  /\ fwdActive

(* C10: when the hypervisor was started and the port P is not negative, the
   first event of Run is the booting event (sshLocalPort = P, no flag, no
   error), emitted before the host-key reset and before the startup goroutine
   is launched. *)
C10_BootingFirst ==
  /\ (Has(mlog, "start") /\ port >= 0 /\ pc # "checkPort") =>
       /\ events # <<>>
       /\ events[1] = Status(FALSE, FALSE, FALSE, <<>>, port)
  /\ Has(mlog, "sshkeygen") => Before(mlog, "emitBooting", "sshkeygen")
  /\ Has(mlog, "goStartup") => Before(mlog, "emitBooting", "goStartup")
  /\ (pc = "sshkeygen" /\ ~Has(mlog, "sshkeygen")) =>
       (events = <<Status(FALSE, FALSE, FALSE, <<>>, port)>> /\ spc = "none")
  /\ spc # "none" => (events # <<>> /\ Has(mlog, "sshkeygen"))

C10_Witness ==
  /\ port = 1
  /\ Len(events) = 3
  /\ events[1] = Status(FALSE, FALSE, FALSE, <<>>, 1)
  /\ events[2].running
  /\ events[3].aborted

AbortIdx == {i \in 1..Len(events) : events[i].aborted}

(* C11: on every return path of Run (pipe-setup failure, start failure,
   invalid port, host-key-reset failure, hypervisor exit, shutdown after an
   interrupt) exactly one event with aborted=true is emitted by Run, after
   every other event of Run's own task: a return statement of Run leads to
   the aborted event, which is never emitted twice nor before the booting
   event. *)
C11_AbortOnEveryReturn ==
  /\ [](Cardinality(AbortIdx) <= 1)
  /\ [](pc = "done" => Cardinality(AbortIdx) = 1)
  /\ [](\A i \in AbortIdx, j \in 1..Len(events) :
          events[j] = stBooting => j < i)
  /\ (ret # "none") ~> (AbortIdx # {})

StartupIdx == {i \in 1..Len(events) : events[i].running \/ events[i].degraded}

(* C12 (as claimed): the event of the startup goroutine has degraded=true and
   a non-empty error list if a stage failed and running=true otherwise:
   running=true exactly when no stage failed. *)
C12_RunningIffNoFailure ==
  \A i \in StartupIdx :
    /\ events[i].degraded <=> (sErrs # <<>>)
    /\ events[i].degraded => events[i].errors # <<>>
    /\ events[i].running <=> (sErrs = <<>>)

(* C12 (amended): the event of the startup goroutine has degraded=true and a
   non-empty error list exactly when a stage failed, and running=true in
   every case, also when it is degraded. *)
C12_DegradedIffFailure ==
  /\ spc = "done" => Cardinality(StartupIdx) = 1
  /\ spc # "done" => StartupIdx = {}
  /\ \A i \in StartupIdx :
       /\ events[i].running
       /\ ~events[i].aborted
       /\ events[i].degraded <=> (sErrs # <<>>)
       /\ events[i].errors = IF sErrs # <<>> THEN <<sErrs>> ELSE <<>>
       /\ Len(mounts) < MaxMounts => events[i].degraded
       /\ events[i].sshLocalPort = port

C12_Witness ==
  \E i \in StartupIdx :
    /\ events[i].running
    /\ events[i].degraded
    /\ events[i].errors = <<(<<"essential", "optional">>)>>

(* C13: the guest connectivity session is removed on shutdown: once Run has
   returned after an interrupt with the watcher launched, the forward is
   cancelled, ga.sock is deleted and the watcher has terminated, at the
   latest eventually and without any further external action. *)
C13_SessionRemovedOnShutdown ==
  (pc = "done" /\ Has(mlog, "sigint") /\ gpc # "none")
    ~> (gpc = "done" /\ ~fwdActive /\ ~sockFile)

(* the state InitUp describes is a state of the whole program *)
InitUpState ==
  /\ pc = "select" /\ spc = "done" /\ gpc = "probe" /\ wlog = <<>>
  /\ sErrs = <<>> /\ mounts = Iota(MaxMounts) /\ Len(events) = 2
  /\ ~ctxDone /\ sigint = 0 /\ qproc = "running" /\ wpc = "wait"
NotInitUpState == ~InitUpState

(* C14: the teardown stack is never appended to during or after its drain:
   once the interrupt handler has begun close(), onClose is what close()
   read when it began; and the stack is drained at most once per Run. *)
C14_NoAppendAfterDrain ==
  /\ Has(mlog, "sigint") => Len(onClose) = closeLen
  /\ Count(mlog, "sigint") <= 1

(* C15: nothing registered is left behind by an interrupt-driven shutdown:
   when Run is returning from the interrupt path (its return statement
   reached, Run not yet left), every action registered on the teardown stack
   so far was executed and every provisioned mount was unmounted. *)
C15_NoLeakOnInterrupt ==
  (pc = "returning" /\ Has(mlog, "sigint")) =>
     /\ InvokedFns = Reverse(onClose)
     /\ (Has(onClose, UnmountFn) => Len(unmounted) = Len(mounts))

(* C16: when opening the QMP socket, the handshake, or sending the
   power-down fails, the kill follows at once: no timer is armed, no exit is
   awaited first; the exit is then awaited, the pid file removed and the
   wait result returned. *)
CoopFailures == {"qmpOpenFailed", "qmpConnectFailed", "powerdownFailed"}
C16_CoopFailureForces ==
  \A f \in CoopFailures : Has(mlog, f) =>
    /\ pc \in {"kill", "killWait", "rmPid", "returning", "done"}
    /\ ~timerSet /\ ~deadlineFired
    /\ ~Has(mlog, "deadline") /\ ~Has(mlog, "recvWaitExit")
    /\ Idx(mlog, f) = Len(mlog) \/ mlog[Idx(mlog, f) + 1] = "kill"
    /\ pc # "kill" => killCount = 1 /\ Has(mlog, "kill")
    /\ Returned =>
         /\ SubSeq(mlog, Idx(mlog, f), Len(mlog)) = <<f, "kill", "recvKill", "rmPid">>
         /\ ~pidFile
         /\ wpc = "done" /\ qproc = "exited"
         /\ ret = qExit
C16_Witness ==
  /\ pc = "done" /\ Has(mlog, "qmpConnectFailed") /\ ret = "killed" /\ ~pidFile

(* C17: after the context is cancelled and the session attempt has
   returned, the watcher cancels the forward (the cancel is carried out, so
   no forward is left), then deletes ga.sock, then terminates; while the
   context is not cancelled it never leaves its loop. *)
C17_WatcherCancellation ==
  /\ gpc \in {"rmFinal", "done"} => ~fwdActive
  /\ gpc = "done" =>
       /\ ~sockFile
       /\ Len(wlog) >= 3
       /\ SubSeq(wlog, Len(wlog) - 2, Len(wlog)) = <<"ctxDone", "cancel", "rmFinal">>
  /\ ~ctxDone => gpc \notin {"cancelFwd", "rmFinal", "done"}

(* C18: startup degrades and continues: whatever fails, once the startup
   task is past a stage that stage has happened -- the unmount action is
   registered (once), the watcher is launched, the optional wait is reached
   -- and when the task completes exactly one running/degraded event exists,
   whose errors hold every failure recorded. *)
AfterStage(s) ==
  LET order == <<"none", "reg1", "essential", "mounts", "reg2", "goWatcher",
                 "optional", "emit", "done">>
  IN Idx(order, spc) > Idx(order, s)
C18_StartupContinues ==
  /\ AfterStage("reg2") <=> Count(onClose, UnmountFn) = 1
  /\ ~AfterStage("reg2") => Count(onClose, UnmountFn) = 0
  /\ AfterStage("goWatcher") <=> gpc # "none"
  /\ Has(sErrs, "optional") => AfterStage("optional")
  /\ (AfterStage("mounts") /\ Len(mounts) < MaxMounts) => Has(sErrs, "mounts")
  /\ spc = "done" =>
       /\ Cardinality(StartupIdx) = 1
       /\ \A i \in StartupIdx :
            events[i].errors = IF sErrs = <<>> THEN <<>> ELSE <<sErrs>>
  /\ spc # "done" => StartupIdx = {}
C18_Witness ==
  /\ spc = "done" /\ sErrs = <<"essential", "mounts", "optional">>
  /\ Has(onClose, UnmountFn) /\ gpc = "probe"
  /\ \E i \in StartupIdx : events[i].degraded

(* C19: the hypervisor is never orphaned by the main loop: once the main
   select has been reached, Run returns only after the exit result was
   received from qWaitCh, with the process gone; the result is received at
   most once, and no step waits for it after it was consumed. *)
Recvs == Count(mlog, "recvSelect") + Count(mlog, "recvWaitExit")
         + Count(mlog, "recvKill")
C19_NeverOrphaned ==
  /\ Recvs <= 1
  /\ Recvs = 1 <=> wpc = "done"
  /\ (Returned /\ Has(mlog, "goStartup")) =>
        Recvs = 1 /\ qproc = "exited"
  /\ pc \in {"select", "waitExit", "kill", "killWait"} => Recvs = 0
C19_Witness ==
  /\ pc = "done" /\ Has(mlog, "sigint") /\ Has(mlog, "recvKill")
  /\ qCause = "self" /\ killCount = 1

(* C20: shutdown terminates: after the main loop has received an interrupt,
   Run eventually returns, the aborted event emitted. *)
C20_ShutdownTerminates ==
  Has(mlog, "sigint") ~> (pc = "done" /\ AbortIdx # {})
C20_Witness ==
  /\ pc = "done" /\ Has(mlog, "sigint") /\ Has(mlog, "deadline")
  /\ Has(mlog, "recvKill") /\ AbortIdx # {}

=============================================================================
